---- MODULE Spec2Model ----
(***************************************************************************)
(* Model of src/injected.js: the wrappers installed over the capability    *)
(* entry points of a page (media, geolocation, clipboard, notifications),  *)
(* the lifecycle maps they keep and the debounced event publisher          *)
(* logPermissionUsage.                                                     *)
(*                                                                         *)
(* One action is one synchronous handler of the script (a wrapper body, a  *)
(* then-callback, a position callback, a track listener) or one step of    *)
(* the clock.  Time is in milliseconds, as Date.now() reports it.          *)
(***************************************************************************)
EXTENDS Integers, Sequences, FiniteSets, TLC

VARIABLES
  now,                \* the value Date.now() returns
  recentLogs,         \* Map eventKey -> instant of the last admitted log
  activePermissions,  \* Map 'camera' | 'microphone' -> {stream, requestId}
  activeWatchers,     \* Map watchId -> {startTime, updateCount}
  events,             \* the PERMISSION_DETECTED events dispatched so far
  gumPending,         \* promise-form getUserMedia requests awaiting the original
  legacyPending,      \* legacy getUserMedia requests awaiting the original
  tracks,             \* media tracks whose stop/ended the script has wrapped
  gcpPending,         \* getCurrentPosition requests awaiting the original
  watches,            \* watch ids registered with the original watchPosition
  inFlight,           \* watch ids with a position callback queued before a clear
  clipPending,        \* clipboard requests awaiting the original
  nextId,             \* next request / stream identity
  origCalls,          \* how often each original implementation was invoked
  calls,              \* how often the page called each wrapped entry point
  delivered,          \* per watch id, the successful position callbacks so far
  observed,           \* the calls of logPermissionUsage: key, instant, admitted
  last                \* the last handler: its request, what the original gave
                      \* it, what the page got from it, the events it dispatched

vars == <<now, recentLogs, activePermissions, activeWatchers, events,
          gumPending, legacyPending, tracks, gcpPending, watches, inFlight,
          clipPending, nextId, origCalls, calls, delivered, observed, last>>

\* ------------------------------------------------------------------ bounds

\* Calls of wrapped entry points by the page, in the whole-script
\* specification and in the specifications of one family of entry points.
MaxCalls == 2
PageCalls == 3
MicCalls == 3
MediaCalls == 3
GeoCalls == 4
\* Position callbacks the original delivers to one watch.
MaxUpdates == 2
WatchUpdates == 11

\* The instants at which handlers run: differences below, at and above the
\* debounce window and the sweep age all occur among them.
Instants == {0, 1000, 2000, 11000, 12000}
ShortInstants == {0, 1000, 2000}

\* ------------------------------------------------------- program constants

DEBOUNCE_WINDOW == 2000
CLEAN_AGE == 10000
ACTIVE_EVERY == 10

\* ------------------------------------------------------------------ values

\* A value handed over a call boundary: a resolution, a rejection, a callback
\* argument, a thrown error, a return value.
Val(kind, tag, n) == [kind |-> kind, tag |-> tag, n |-> n]
NoVal == Val("none", "", 0)

Originals == {"getUserMedia", "legacyGetUserMedia", "getCurrentPosition",
              "watchPosition", "clearWatch", "readText", "read", "writeText",
              "write", "Notification", "track.stop"}

EmptyMap == [k \in {} |-> 0]

\* Map.prototype.set / delete on a map held as a function.
MapSet(m, k, v) == [x \in DOMAIN m \cup {k} |-> IF x = k THEN v ELSE m[x]]
MapDelete(m, k) == [x \in DOMAIN m \ {k} |-> m[x]]

\* ------------------------------------------------- logPermissionUsage

eventKey(permissionType, action) == permissionType \o ":" \o action

\* A variant whose window includes its end.
IsDuplicateInclusive(logs, key, t) ==
  /\ key \in DOMAIN logs
  /\ t - logs[key] <= DEBOUNCE_WINDOW

\* The debounce test of lines 30-35: a log of the same key less than
\* DEBOUNCE_WINDOW ago.
IsDuplicate(logs, key, t) ==
  /\ key \in DOMAIN logs
  /\ t - logs[key] < DEBOUNCE_WINDOW

\* A variant without a sweep.
CleanOldNever(logs, t) == logs

\* A variant whose retention horizon is shorter than the debounce window.
CleanOldEager(logs, t) ==
  [k \in {x \in DOMAIN logs : ~(t - logs[x] > 0)} |-> logs[k]]

\* The sweep of lines 41-45.
CleanOld(logs, t) ==
  [k \in {x \in DOMAIN logs : ~(t - logs[x] > CLEAN_AGE)} |-> logs[k]]

\* The CustomEvent of lines 48-58.
PermissionEvent(permissionType, action, metadata, t) ==
  [permissionType |-> permissionType,
   action |-> action,
   metadata |-> [detectionMethod |-> "api-interception", timestamp |-> t] @@ metadata]

\* A variant that restarts the window on every observation.
logPermissionUsageRestarting(st, permissionType, action, metadata, t) ==
  LET key == eventKey(permissionType, action) IN
  IF IsDuplicate(st.logs, key, t)
  THEN [st EXCEPT !.logs = MapSet(st.logs, key, t),
                  !.observed = Append(@, [key |-> key, t |-> t, admitted |-> FALSE])]
  ELSE [logs |-> CleanOld(MapSet(st.logs, key, t), t),
        events |-> Append(st.events,
                          PermissionEvent(permissionType, action, metadata, t)),
        observed |-> Append(st.observed, [key |-> key, t |-> t, admitted |-> TRUE])]

\* A variant that hands the new event over ahead of the earlier ones.
logPermissionUsageReordered(st, permissionType, action, metadata, t) ==
  LET key == eventKey(permissionType, action) IN
  IF IsDuplicate(st.logs, key, t)
  THEN [st EXCEPT !.observed = Append(@, [key |-> key, t |-> t, admitted |-> FALSE])]
  ELSE [logs |-> CleanOld(MapSet(st.logs, key, t), t),
        events |-> <<PermissionEvent(permissionType, action, metadata, t)>>
                     \o st.events,
        observed |-> Append(st.observed, [key |-> key, t |-> t, admitted |-> TRUE])]

\* logPermissionUsage at clock reading t, on st = (recentLogs, events); the
\* field observed records the call and which return it took.
logPermissionUsage(st, permissionType, action, metadata, t) ==
  LET key == eventKey(permissionType, action) IN
  IF IsDuplicate(st.logs, key, t)
  THEN [st EXCEPT !.observed = Append(@, [key |-> key, t |-> t, admitted |-> FALSE])]
  ELSE [logs |-> CleanOld(MapSet(st.logs, key, t), t),
        events |-> Append(st.events,
                          PermissionEvent(permissionType, action, metadata, t)),
        observed |-> Append(st.observed, [key |-> key, t |-> t, admitted |-> TRUE])]

LogState == [logs |-> recentLogs, events |-> events, observed |-> observed]

\* The script's state after a handler left the publisher in state st.
Logged(st) ==
  /\ recentLogs' = st.logs
  /\ events' = st.events
  /\ observed' = st.observed

\* The events a handler dispatched, given the publisher state it left.
Emitted(st) == SubSeq(st.events, Len(events) + 1, Len(st.events))

\* All calls of wrapped entry points so far.
TotalCalls ==
  calls["getUserMedia"] + calls["legacyGetUserMedia"] + calls["getCurrentPosition"]
  + calls["watchPosition"] + calls["clearWatch"] + calls["readText"] + calls["read"]
  + calls["writeText"] + calls["write"] + calls["Notification"] + calls["track.stop"]

\* A budget bounds the calls of one entry point and of all of them.
Budget(each, total) == [each |-> each, total |-> total]
MayCall(entry, budget) ==
  /\ calls[entry] < budget.each
  /\ TotalCalls < budget.total

NoReq == [id |-> 0]
Outcome(op, req, given, got, emitted) ==
  [op |-> op, req |-> req, given |-> given, got |-> got, emitted |-> emitted]


mediaVars == <<activePermissions, gumPending, legacyPending, tracks>>
geoVars == <<activeWatchers, gcpPending, watches, inFlight, delivered>>
logVars == <<recentLogs, events, observed>>

\* A variant that forwards clearWatch only while some watch has a record.
CalledUnlessUnknown(entry, orig) ==
  /\ calls' = [calls EXCEPT ![entry] = @ + 1]
  /\ origCalls' = IF entry = "clearWatch" /\ activeWatchers = EmptyMap
                  THEN origCalls
                  ELSE [origCalls EXCEPT ![orig] = @ + 1]

\* The page calls wrapped entry point `entry`, which invokes original `orig`.
Called(entry, orig) ==
  /\ calls' = [calls EXCEPT ![entry] = @ + 1]
  /\ origCalls' = [origCalls EXCEPT ![orig] = @ + 1]

\* ------------------------------------------------------------------- clock

Tick(t) ==
  /\ now < t
  /\ now' = t
  /\ last' = Outcome("tick", NoReq, NoVal, NoVal, <<>>)
  /\ UNCHANGED <<mediaVars, geoVars, logVars, clipPending, nextId, origCalls, calls>>

\* ------------------------------------------------------------------- media

\* What the original getUserMedia rejects with.
Errors == {"NotAllowedError"}

\* A constraints argument: absent, or with video / audio each absent, true or
\* a constraint object.
NoConstraints == [present |-> FALSE, video |-> "absent", audio |-> "absent"]
ConstraintsOf(v, a) == [present |-> TRUE, video |-> v, audio |-> a]
ConstraintChoices ==
  {NoConstraints, ConstraintsOf("true", "absent"), ConstraintsOf("absent", "true"),
   ConstraintsOf("object", "true")}

\* !!constraints.video, guarded by `if (constraints)`, lines 76-79.
Requesting(constraints, kind) ==
  /\ constraints.present
  /\ (IF kind = "video" THEN constraints.video ELSE constraints.audio) # "absent"

\* A variant with the two levels exchanged.
ConstraintLevelSwapped(c) == IF c = "object" THEN "basic" ELSE "advanced"

\* typeof constraints.x === 'object' ? 'advanced' : 'basic', lines 90 and 99.
ConstraintLevel(c) == IF c = "object" THEN "advanced" ELSE "basic"

\* track.kind === 'video' ? 'camera' : 'microphone', line 106.
PermTypeOf(kind) == IF kind = "video" THEN "camera" ELSE "microphone"

\* The tracks of the stream the original resolves a request with.
StreamKinds(constraints) == {k \in {"video", "audio"} : Requesting(constraints, k)}

\* navigator.mediaDevices.getUserMedia(constraints), lines 71-82: the
\* synchronous part, up to the call of the original.
GetUserMedia(constraints, budget) ==
  /\ MayCall("getUserMedia", budget)
  /\ gumPending' = gumPending \cup
       {[id |-> nextId, constraints |-> constraints,
         requestId |-> "media-" \o ToString(now)]}
  /\ nextId' = nextId + 1
  /\ Called("getUserMedia", "getUserMedia")
  /\ last' = Outcome("getUserMedia", [id |-> nextId], NoVal, NoVal, <<>>)
  /\ UNCHANGED <<now, activePermissions, legacyPending, tracks, geoVars, logVars,
                 clipPending>>

\* Lines 86-102: the two active-use logs and activePermissions.set.
GrantLogged(st, p) ==
  LET st1 == IF Requesting(p.constraints, "video")
             THEN logPermissionUsage(st, "camera", "active-use",
                    [duration |-> "started", requestId |-> p.requestId,
                     constraints |-> ConstraintLevel(p.constraints.video)], now)
             ELSE st
  IN IF Requesting(p.constraints, "audio")
     THEN logPermissionUsage(st1, "microphone", "active-use",
            [duration |-> "started", requestId |-> p.requestId,
             constraints |-> ConstraintLevel(p.constraints.audio)], now)
     ELSE st1

GrantRecorded(ap, p) ==
  LET rec == [stream |-> p.id, requestId |-> p.requestId]
      ap1 == IF Requesting(p.constraints, "video") THEN MapSet(ap, "camera", rec) ELSE ap
  IN IF Requesting(p.constraints, "audio") THEN MapSet(ap1, "microphone", rec) ELSE ap1

\* Lines 105-129: every track of the stream gets stop wrapped and an 'ended'
\* listener.  `since` is the instant of the wrapping and `stopEvents` counts
\* the stopped events its wrappers dispatched.
WrappedTracks(p) ==
  {[stream |-> p.id, kind |-> k, requestId |-> p.requestId, readyState |-> "live",
    since |-> now, stopEvents |-> 0] : k \in StreamKinds(p.constraints)}

\* A variant of the then-callback that returns nothing.
ThenResultUndefined(p, wellFormed) ==
  IF wellFormed THEN Val("resolve", "undefined", 0) ELSE Val("reject", "TypeError", 0)

\* What the promise the wrapper returned settles with: line 131 returns the
\* stream; a throw of line 105 rejects it.
ThenResult(p, wellFormed) ==
  IF wellFormed THEN Val("resolve", "stream", p.id) ELSE Val("reject", "TypeError", 0)

\* The then-callback of lines 82-131, the original having resolved request p
\* with a stream.  A stream whose getTracks is no function makes line 105
\* throw, after lines 86-102 ran, and the promise rejects with that TypeError.
GumResolve(p, wellFormed) ==
  /\ p \in gumPending
  /\ StreamKinds(p.constraints) # {}
  /\ gumPending' = gumPending \ {p}
  /\ LET st == GrantLogged(LogState, p) IN
       /\ Logged(st)
       /\ activePermissions' = GrantRecorded(activePermissions, p)
       /\ tracks' = IF wellFormed THEN tracks \cup WrappedTracks(p) ELSE tracks
       /\ last' = Outcome("getUserMedia.then", p,
                    Val("resolve", IF wellFormed THEN "stream" ELSE "badstream", p.id),
                    ThenResult(p, wellFormed), Emitted(st))
  /\ UNCHANGED <<now, legacyPending, geoVars, clipPending, nextId, origCalls, calls>>

\* A variant of the catch-callbacks that throws an error of its own.
RethrownWrapped(err) == Val("reject", "Error", 0)

\* `throw err` of lines 134, 260, 282, 297 and 310.
Rethrown(err) == Val("reject", err, 0)

\* The catch of lines 132-135: the original rejected request p.
GumReject(p, err) ==
  /\ p \in gumPending
  /\ gumPending' = gumPending \ {p}
  /\ last' = Outcome("getUserMedia.catch", p, Val("reject", err, 0),
                     Rethrown(err), <<>>)
  /\ UNCHANGED <<now, activePermissions, legacyPending, tracks, geoVars, logVars,
                 clipPending, nextId, origCalls, calls>>

\* The wrapped track.stop of lines 110-118.
TrackStop(t, budget) ==
  /\ t \in tracks
  /\ MayCall("track.stop", budget)
  /\ LET st == logPermissionUsage(LogState, PermTypeOf(t.kind), "stopped",
                 [duration |-> "ended", requestId |-> t.requestId,
                  reason |-> "manual-stop"], now) IN
       /\ Logged(st)
       /\ last' = Outcome("track.stop", t, Val("return", "undefined", 0),
                          Val("return", "undefined", 0), Emitted(st))
       /\ tracks' = (tracks \ {t}) \cup
            {[t EXCEPT !.readyState = "ended", !.stopEvents = @ + Len(Emitted(st))]}
  /\ activePermissions' = MapDelete(activePermissions, PermTypeOf(t.kind))
  /\ Called("track.stop", "track.stop")
  /\ UNCHANGED <<now, gumPending, legacyPending, geoVars, clipPending, nextId>>

\* The 'ended' listener of lines 121-128; the platform fires 'ended' once, on a
\* live track whose source ends.
TrackEnded(t) ==
  /\ t \in tracks
  /\ t.readyState = "live"
  /\ LET st == logPermissionUsage(LogState, PermTypeOf(t.kind), "stopped",
                 [duration |-> "ended", requestId |-> t.requestId,
                  reason |-> "connection-ended"], now) IN
       /\ Logged(st)
       /\ last' = Outcome("track.ended", t, NoVal, NoVal, Emitted(st))
       /\ tracks' = (tracks \ {t}) \cup
            {[t EXCEPT !.readyState = "ended", !.stopEvents = @ + Len(Emitted(st))]}
  /\ activePermissions' = MapDelete(activePermissions, PermTypeOf(t.kind))
  /\ UNCHANGED <<now, gumPending, legacyPending, geoVars, clipPending, nextId,
                 origCalls, calls>>

\* navigator.getUserMedia(constraints, successCallback, errorCallback), lines
\* 142-156: the call of the original.
LegacyGetUserMedia(constraints, hasCallback, budget) ==
  /\ MayCall("legacyGetUserMedia", budget)
  /\ legacyPending' = legacyPending \cup
       {[id |-> nextId, constraints |-> constraints, hasCallback |-> hasCallback]}
  /\ nextId' = nextId + 1
  /\ Called("legacyGetUserMedia", "legacyGetUserMedia")
  /\ last' = Outcome("legacyGetUserMedia", [id |-> nextId], NoVal, NoVal, <<>>)
  /\ UNCHANGED <<now, activePermissions, gumPending, tracks, geoVars, logVars,
                 clipPending>>

\* The success function of lines 145-153.
LegacySuccess(p) ==
  /\ p \in legacyPending
  /\ StreamKinds(p.constraints) # {}
  /\ legacyPending' = legacyPending \ {p}
  /\ LET st1 == IF Requesting(p.constraints, "video")
                THEN logPermissionUsage(LogState, "camera", "active-use",
                                        [api |-> "legacy"], now)
                ELSE LogState
         st == IF Requesting(p.constraints, "audio")
               THEN logPermissionUsage(st1, "microphone", "active-use",
                                       [api |-> "legacy"], now)
               ELSE st1
     IN /\ Logged(st)
        /\ last' = Outcome("legacyGetUserMedia.success", p,
                     Val("callback", "stream", p.id),
                     IF p.hasCallback THEN Val("callback", "stream", p.id) ELSE NoVal,
                     Emitted(st))
  /\ UNCHANGED <<now, activePermissions, gumPending, tracks, geoVars, clipPending,
                 nextId, origCalls, calls>>

\* Line 154: the page's errorCallback is handed to the original as it is.
LegacyError(p, err) ==
  /\ p \in legacyPending
  /\ legacyPending' = legacyPending \ {p}
  /\ last' = Outcome("legacyGetUserMedia.error", p, Val("callback", err, 0),
                     Val("callback", err, 0), <<>>)
  /\ UNCHANGED <<now, activePermissions, gumPending, tracks, geoVars, logVars,
                 clipPending, nextId, origCalls, calls>>

\* ------------------------------------------------------------- geolocation

\* A position the original delivers: a GeolocationPosition, or an object
\* without coords.
GoodPosition == [wellFormed |-> TRUE, accuracy |-> 25]
Positions == {GoodPosition, [wellFormed |-> FALSE, accuracy |-> 0]}
PositionVal(pos) == Val("callback", IF pos.wellFormed THEN "position" ELSE "badposition",
                        pos.accuracy)

\* navigator.geolocation.getCurrentPosition, lines 167-184: the call of the
\* original.
GetCurrentPosition(hasCallback, budget) ==
  /\ MayCall("getCurrentPosition", budget)
  /\ gcpPending' = gcpPending \cup
       {[id |-> nextId, requestId |-> "geo-" \o ToString(now),
         hasCallback |-> hasCallback]}
  /\ nextId' = nextId + 1
  /\ Called("getCurrentPosition", "getCurrentPosition")
  /\ last' = Outcome("getCurrentPosition", [id |-> nextId], NoVal, NoVal, <<>>)
  /\ UNCHANGED <<now, mediaVars, activeWatchers, watches, inFlight, delivered,
                 logVars, clipPending>>

\* The success function of lines 171-180.  position.coords.accuracy is read
\* while the metadata is built: without coords line 175 throws before anything
\* is logged and before the page's callback is called.
GcpSuccess(p, pos) ==
  /\ p \in gcpPending
  /\ gcpPending' = gcpPending \ {p}
  /\ IF pos.wellFormed
     THEN LET st == logPermissionUsage(LogState, "location", "accessed",
                      [requestId |-> p.requestId, accuracy |-> pos.accuracy,
                       method |-> "getCurrentPosition"], now) IN
            /\ Logged(st)
            /\ last' = Outcome("getCurrentPosition.success", p, PositionVal(pos),
                         IF p.hasCallback THEN PositionVal(pos) ELSE NoVal,
                         Emitted(st))
     ELSE /\ UNCHANGED logVars
          /\ last' = Outcome("getCurrentPosition.success", p, PositionVal(pos),
                             Val("throw", "TypeError", 0), <<>>)
  /\ UNCHANGED <<now, mediaVars, activeWatchers, watches, inFlight, delivered,
                 clipPending, nextId, origCalls, calls>>

\* Line 181: the page's errorCallback is handed to the original as it is.
GcpError(p, err) ==
  /\ p \in gcpPending
  /\ gcpPending' = gcpPending \ {p}
  /\ last' = Outcome("getCurrentPosition.error", p, Val("callback", err, 0),
                     Val("callback", err, 0), <<>>)
  /\ UNCHANGED <<now, mediaVars, activeWatchers, watches, inFlight, delivered,
                 logVars, clipPending, nextId, origCalls, calls>>

\* navigator.geolocation.watchPosition, lines 190-225: the original registers
\* the watch and returns its id, which the wrapper returns.
WatchPosition(hasCallback, budget) ==
  /\ MayCall("watchPosition", budget)
  /\ watches' = watches \cup {[id |-> nextId, hasCallback |-> hasCallback]}
  /\ delivered' = MapSet(delivered, nextId, 0)
  /\ nextId' = nextId + 1
  /\ Called("watchPosition", "watchPosition")
  /\ last' = Outcome("watchPosition", [id |-> nextId], Val("return", "watchId", nextId),
                     Val("return", "watchId", nextId), <<>>)
  /\ UNCHANGED <<now, mediaVars, activeWatchers, gcpPending, inFlight, logVars,
                 clipPending>>

\* Lines 196-203: the first callback of a watch id without a record.
WatchStarted(st, watchId) ==
  logPermissionUsage(st, "location", "tracking-started",
    [requestId |-> "watch-" \o ToString(watchId), method |-> "watchPosition",
     watchId |-> watchId], now)

\* Lines 205-206: watcher.updateCount++.
Incremented(watcher) == [watcher EXCEPT !.updateCount = @ + 1]

\* Line 209: every 10th update is logged.
IsLoggedUpdate(updateCount) == updateCount % ACTIVE_EVERY = 0

\* The success function of lines 192-219 for watch w.
PositionHandler(w, pos, op) ==
  /\ IF w.id \notin DOMAIN activeWatchers
     THEN LET st == WatchStarted(LogState, w.id) IN
            /\ Logged(st)
            /\ activeWatchers' = MapSet(activeWatchers, w.id,
                                        [startTime |-> now, updateCount |-> 0])
            /\ last' = Outcome(op, w, PositionVal(pos),
                         IF w.hasCallback THEN PositionVal(pos) ELSE NoVal, Emitted(st))
     ELSE LET watcher == Incremented(activeWatchers[w.id])
              st == IF IsLoggedUpdate(watcher.updateCount)
                    THEN logPermissionUsage(LogState, "location", "tracking-active",
                           [requestId |-> "watch-" \o ToString(w.id),
                            updateCount |-> watcher.updateCount,
                            durationMs |-> now - watcher.startTime], now)
                    ELSE LogState
          IN /\ Logged(st)
             /\ activeWatchers' = MapSet(activeWatchers, w.id, watcher)
             /\ last' = Outcome(op, w, PositionVal(pos),
                          IF w.hasCallback THEN PositionVal(pos) ELSE NoVal, Emitted(st))
  /\ delivered' = [delivered EXCEPT ![w.id] = @ + 1]

\* The original delivers a position to a registered watch.
WatchSuccess(w, pos, maxUpdates) ==
  /\ w \in watches
  /\ delivered[w.id] < maxUpdates
  /\ PositionHandler(w, pos, "watchPosition.success")
  /\ UNCHANGED <<now, mediaVars, gcpPending, watches, inFlight, clipPending, nextId,
                 origCalls, calls>>

\* A position callback the original had queued before the watch was cleared
\* is run after the clear.
LateWatchSuccess(w, pos) ==
  /\ w \in inFlight
  /\ inFlight' = inFlight \ {w}
  /\ PositionHandler(w, pos, "watchPosition.late")
  /\ UNCHANGED <<now, mediaVars, gcpPending, watches, clipPending, nextId,
                 origCalls, calls>>

\* Line 220: the page's errorCallback is handed to the original as it is.
WatchError(w, err) ==
  /\ w \in watches
  /\ last' = Outcome("watchPosition.error", w, Val("callback", err, 0),
                     Val("callback", err, 0), <<>>)
  /\ UNCHANGED <<now, mediaVars, geoVars, logVars, clipPending, nextId, origCalls,
                 calls>>

\* Watch ids the page may pass to clearWatch: those it was given, and 0, which
\* the original never assigns.
ClearableIds == {0} \cup DOMAIN delivered

\* navigator.geolocation.clearWatch(watchId), lines 229-240.  `queued` says
\* whether the original has a callback of this watch queued at this moment.
ClearWatch(watchId, queued, budget) ==
  /\ MayCall("clearWatch", budget)
  /\ watchId \in ClearableIds
  /\ queued => \E w \in watches : w.id = watchId
  /\ IF watchId \in DOMAIN activeWatchers
     THEN LET watcher == activeWatchers[watchId]
              st == logPermissionUsage(LogState, "location", "tracking-stopped",
                      [watchId |-> watchId, totalUpdates |-> watcher.updateCount,
                       totalDuration |-> now - watcher.startTime], now)
          IN /\ Logged(st)
             /\ activeWatchers' = MapDelete(activeWatchers, watchId)
             /\ last' = Outcome("clearWatch", [id |-> watchId, had |-> TRUE],
                                Val("return", "undefined", 0),
                                Val("return", "undefined", 0), Emitted(st))
     ELSE /\ UNCHANGED <<logVars, activeWatchers>>
          /\ last' = Outcome("clearWatch", [id |-> watchId, had |-> FALSE],
                             Val("return", "undefined", 0),
                             Val("return", "undefined", 0), <<>>)
  /\ inFlight' = IF queued THEN inFlight \cup {w \in watches : w.id = watchId}
                 ELSE inFlight
  /\ watches' = {w \in watches : w.id # watchId}
  /\ Called("clearWatch", "clearWatch")
  /\ UNCHANGED <<now, mediaVars, gcpPending, delivered, clipPending, nextId>>

\* --------------------------------------------------------------- clipboard

Texts == {"", "copied"}

\* What clipboard.read resolves with: a list of items, each with its types.
ItemLists == {<< [types |-> <<"text/plain", "text/html">>],
                        [types |-> <<"image/png">>] >>}

\* Lines 269-274: types.push(...item.types) over the items.
RECURSIVE ContentTypes(_)
ContentTypes(items) ==
  IF items = << >> THEN << >>
  ELSE Head(items).types \o ContentTypes(Tail(items))

\* text ? text.length : 0, lines 256 and 294.
DataLength(text) == IF text # "" THEN Len(text) ELSE 0

ClipOps == {"readText", "read", "writeText", "write"}

\* navigator.clipboard.readText / read / writeText / write: the call of the
\* original, lines 253, 268, 291 and 305.  `text` is writeText's argument.
ClipboardCall(op, text, budget) ==
  /\ MayCall(op, budget)
  /\ op = "writeText" \/ text = ""
  /\ clipPending' = clipPending \cup {[id |-> nextId, op |-> op, text |-> text]}
  /\ nextId' = nextId + 1
  /\ Called(op, op)
  /\ last' = Outcome(op, [id |-> nextId], NoVal, NoVal, <<>>)
  /\ UNCHANGED <<now, mediaVars, geoVars, logVars>>

\* The metadata each clipboard then-callback logs, lines 254-257, 276-279,
\* 292-295 and 306-308.
ClipMetadata(p, text, items) ==
  CASE p.op = "readText" -> [dataType |-> "text", dataLength |-> DataLength(text)]
    [] p.op = "read" -> [dataType |-> "mixed", contentTypes |-> ContentTypes(items)]
    [] p.op = "writeText" -> [dataType |-> "text", dataLength |-> DataLength(p.text)]
    [] p.op = "write" -> [dataType |-> "mixed"]

ClipPermission(op) ==
  IF op \in {"readText", "read"} THEN "clipboard-read" ELSE "clipboard-write"

\* What the original resolves with, and what the wrapper's promise resolves
\* with: the text, the items, or undefined for the writes.
ClipGiven(p, text, items) ==
  CASE p.op = "readText" -> Val("resolve", "text:" \o text, 0)
    [] p.op = "read" -> Val("resolve", "items", Len(items))
    [] OTHER -> Val("resolve", "undefined", 0)

ClipReturned(p, text, items) ==
  CASE p.op = "readText" -> Val("resolve", "text:" \o text, 0)
    [] p.op = "read" -> Val("resolve", "items", Len(items))
    [] OTHER -> Val("resolve", "undefined", 0)

\* The then-callbacks of lines 253-258, 268-280, 291-295 and 305-308; `text`
\* is what readText resolved with and `items` what read resolved with.
ClipboardResolve(p, text, items) ==
  /\ p \in clipPending
  /\ p.op = "readText" \/ text = ""
  /\ clipPending' = clipPending \ {p}
  /\ LET st == logPermissionUsage(LogState, ClipPermission(p.op), "accessed",
                                  ClipMetadata(p, text, items), now) IN
       /\ Logged(st)
       /\ last' = Outcome(p.op \o ".then", p, ClipGiven(p, text, items),
                          ClipReturned(p, text, items), Emitted(st))
  /\ UNCHANGED <<now, mediaVars, geoVars, nextId, origCalls, calls>>

\* The catch-callbacks of lines 259-261, 281-283, 296-298 and 309-311.
ClipboardReject(p, err) ==
  /\ p \in clipPending
  /\ clipPending' = clipPending \ {p}
  /\ last' = Outcome(p.op \o ".catch", p, Val("reject", err, 0),
                     Rethrown(err), <<>>)
  /\ UNCHANGED <<now, mediaVars, geoVars, logVars, nextId, origCalls, calls>>

\* ------------------------------------------------------------ notifications

Titles == {"Hello"}
NotificationOptions ==
  {[present |-> FALSE, icon |-> "", body |-> ""],
   [present |-> TRUE, icon |-> "i.png", body |-> ""]}

\* window.Notification(title, options), lines 325-333.
Notification(title, options, budget) ==
  /\ MayCall("Notification", budget)
  /\ LET st == logPermissionUsage(LogState, "notifications", "shown",
                 [hasTitle |-> title # "",
                  hasIcon |-> options.present /\ options.icon # "",
                  hasBody |-> options.present /\ options.body # ""], now)
     IN /\ Logged(st)
        /\ last' = Outcome("Notification", NoReq,
                     Val("return", "Notification:" \o title, 0),
                     Val("return", "Notification:" \o title, 0), Emitted(st))
  /\ Called("Notification", "Notification")
  /\ UNCHANGED <<now, mediaVars, geoVars, clipPending, nextId>>

\* ---------------------------------------------------------------- initial

Init ==
  /\ now = 0
  /\ recentLogs = EmptyMap
  /\ activePermissions = EmptyMap
  /\ activeWatchers = EmptyMap
  /\ events = <<>>
  /\ gumPending = {}
  /\ legacyPending = {}
  /\ tracks = {}
  /\ gcpPending = {}
  /\ watches = {}
  /\ inFlight = {}
  /\ clipPending = {}
  /\ nextId = 1
  /\ origCalls = [o \in Originals |-> 0]
  /\ calls = [o \in Originals |-> 0]
  /\ delivered = EmptyMap
  /\ observed = <<>>
  /\ last = Outcome("init", NoReq, NoVal, NoVal, <<>>)

\* --------------------------------------------------------- specifications

\* The media entry points, called with constraints of `choices`; the original
\* resolves with streams of `shapes` (well-formed or not).
MediaNext(choices, shapes, cbs, gum, legacy, stops) ==
  \/ \E c \in choices : GetUserMedia(c, gum)
  \/ \E p \in gumPending, wellFormed \in shapes : GumResolve(p, wellFormed)
  \/ \E p \in gumPending, err \in Errors : GumReject(p, err)
  \/ \E t \in tracks : TrackStop(t, stops)
  \/ \E t \in tracks : TrackEnded(t)
  \/ \E c \in choices, cb \in cbs : LegacyGetUserMedia(c, cb, legacy)
  \/ \E p \in legacyPending : LegacySuccess(p)
  \/ \E p \in legacyPending, err \in Errors : LegacyError(p, err)

GeoNext(positions, cbs, gcp, watch, clear, maxUpdates) ==
  \/ \E cb \in cbs : GetCurrentPosition(cb, gcp)
  \/ \E p \in gcpPending, pos \in positions : GcpSuccess(p, pos)
  \/ \E p \in gcpPending, err \in Errors : GcpError(p, err)
  \/ \E cb \in cbs : WatchPosition(cb, watch)
  \/ \E w \in watches, pos \in positions : WatchSuccess(w, pos, maxUpdates)
  \/ \E w \in inFlight, pos \in positions : LateWatchSuccess(w, pos)
  \/ \E w \in watches, err \in Errors : WatchError(w, err)
  \/ \E id \in ClearableIds, queued \in BOOLEAN : ClearWatch(id, queued, clear)

PageNext(budget) ==
  \/ \E op \in ClipOps, text \in Texts : ClipboardCall(op, text, budget)
  \/ \E p \in clipPending, text \in Texts, items \in ItemLists :
       ClipboardResolve(p, text, items)
  \/ \E p \in clipPending, err \in Errors : ClipboardReject(p, err)
  \/ \E title \in Titles, options \in NotificationOptions :
       Notification(title, options, budget)

Clock(instants) == \E t \in instants : Tick(t)

\* The whole script on one page.
Whole == Budget(MaxCalls, MaxCalls)
Next ==
  \/ Clock(Instants)
  \/ MediaNext(ConstraintChoices, BOOLEAN, BOOLEAN, Whole, Whole, Whole)
  \/ GeoNext(Positions, BOOLEAN, Whole, Whole, Whole, MaxUpdates)
  \/ PageNext(Whole)

Spec == Init /\ [][Next]_vars

\* The clipboard and notification wrappers, over the sweep age.
NextPage == Clock(Instants) \/ PageNext(Budget(PageCalls, PageCalls))
SpecPage == Init /\ [][NextPage]_vars

\* The notification wrapper and the reading clipboard wrappers, which log
\* under two keys, over the sweep age.
ReadOps == {"readText", "read"}
NextReads ==
  \/ Clock(Instants)
  \/ \E op \in ReadOps : ClipboardCall(op, "", Budget(PageCalls, PageCalls))
  \/ \E p \in clipPending, text \in Texts, items \in ItemLists :
       ClipboardResolve(p, text, items)
  \/ \E p \in clipPending, err \in Errors : ClipboardReject(p, err)
  \/ \E title \in Titles, options \in NotificationOptions :
       Notification(title, options, Budget(PageCalls, PageCalls))
SpecReads == Init /\ [][NextReads]_vars

\* ------------------------------------------------------------------ claims

EventKeyOf(e) == eventKey(e.permissionType, e.action)
TimeOf(e) == e.metadata.timestamp

\* The positions of the events of key k.
EventsOf(k) == {i \in 1..Len(events) : EventKeyOf(events[i]) = k}

\* The events of key k whose debounce window holds instant t.
Covering(k, t) == {i \in EventsOf(k) : TimeOf(events[i]) <= t
                                       /\ t - TimeOf(events[i]) < DEBOUNCE_WINDOW}

\* C1 (debounce): two emitted events of one key are at least DEBOUNCE_WINDOW
\* apart, and every observation, admitted or suppressed, lies in the window of
\* exactly one emitted event of its key: a burst after an admitted emission
\* yields that one emission and no other.
C1_Debounce ==
  /\ \A i, j \in 1..Len(events) :
        (i < j /\ EventKeyOf(events[i]) = EventKeyOf(events[j]))
          => TimeOf(events[j]) - TimeOf(events[i]) >= DEBOUNCE_WINDOW
  /\ \A n \in 1..Len(observed) :
        Cardinality(Covering(observed[n].key, observed[n].t)) = 1

\* A burst: an emission, a suppressed observation of the same key after it,
\* and the next emission of that key.
C1_Witness ==
  \E i, j \in 1..Len(events), n \in 1..Len(observed) :
    /\ i < j
    /\ EventKeyOf(events[i]) = EventKeyOf(events[j])
    /\ observed[n].key = EventKeyOf(events[i])
    /\ ~observed[n].admitted
    /\ TimeOf(events[i]) < observed[n].t
    /\ observed[n].t < TimeOf(events[j])

\* The observations the step made.
NewObservations == SubSeq(observed', Len(observed) + 1, Len(observed'))

\* The instant of the last emitted event of key k; -1 without one.
LastAdmitted(k) ==
  IF EventsOf(k) = {} THEN -1
  ELSE TimeOf(events[CHOOSE i \in EventsOf(k) : \A j \in EventsOf(k) : j <= i])

\* C2 (the window restarts on admitted emissions only): a step whose
\* observations are all suppressed leaves the ledger and the events as they
\* were, and an observation of key k at instant t is admitted whenever the
\* ledger holds no entry of k or t is DEBOUNCE_WINDOW or more after the last
\* admitted emission of k.
C2_WindowRestart ==
  [][ /\ (NewObservations # <<>> /\ \A n \in 1..Len(NewObservations) :
                                       ~NewObservations[n].admitted)
         => (recentLogs' = recentLogs /\ events' = events)
      /\ Len(NewObservations) = 1 =>
           LET o == NewObservations[1] IN
             (\/ o.key \notin DOMAIN recentLogs
              \/ (LastAdmitted(o.key) >= 0
                  /\ o.t - LastAdmitted(o.key) >= DEBOUNCE_WINDOW))
               => (o.admitted /\ recentLogs'[o.key] = o.t)
    ]_vars

\* An observation admitted DEBOUNCE_WINDOW after the last admitted emission of
\* its key although a suppressed observation of the key lies in between.
C2_Witness ==
  \E n, m \in 1..Len(observed) :
    /\ n < m
    /\ observed[n].key = observed[m].key
    /\ ~observed[n].admitted
    /\ observed[m].admitted
    /\ observed[m].t - observed[n].t < DEBOUNCE_WINDOW
    /\ \E i \in EventsOf(observed[m].key) :
          /\ TimeOf(events[i]) < observed[n].t
          /\ observed[m].t - TimeOf(events[i]) = DEBOUNCE_WINDOW

\* What the original gave the last handler is a success with a result of the
\* shape the platform documents.
Malformed == {"badstream", "badposition"}
SuccessGiven(v) ==
  /\ v.kind \in {"resolve", "callback", "return"}
  /\ v.tag \notin Errors \cup Malformed
FailureGiven(v) == v.tag \in Errors

\* What the page is due from the last handler: what the original gave, unless
\* the page passed no success callback to be called with it.
Due == IF "hasCallback" \in DOMAIN last.req /\ ~last.req.hasCallback
       THEN NoVal ELSE last.given

\* The events of key k among those the last handler dispatched.
EmittedOf(k) == {i \in 1..Len(last.emitted) : EventKeyOf(last.emitted[i]) = k}

\* The wrapped audio tracks: one per successful promise-form audio request.
AudioTracks == {t \in tracks : t.kind = "audio"}

\* C3 (suppression never affects delegation): the original getUserMedia is
\* invoked once per call of the wrapper; a request the original resolves with
\* a stream resolves with that stream for the page whether its observation
\* was emitted or suppressed; and the completion of every successful audio
\* request lies in the window of exactly one microphone active-use event, so
\* that two completions within DEBOUNCE_WINDOW share one event and a
\* completion after the window has a second one.
C3_Delegation ==
  /\ origCalls["getUserMedia"] = calls["getUserMedia"]
  /\ (last.op = "getUserMedia.then" /\ SuccessGiven(last.given))
       => last.got = last.given
  /\ \A t \in AudioTracks :
       Cardinality(Covering("microphone:active-use", t.since)) = 1

\* Three successful audio requests, the second completing within the window
\* of the first's event and the third at its end: three invocations of the
\* original, two events.
C3_Witness ==
  /\ origCalls["getUserMedia"] = 3
  /\ Cardinality(EventsOf("microphone:active-use")) = 2
  /\ \E a, b, c \in AudioTracks :
       /\ b.since - a.since > 0
       /\ b.since - a.since < DEBOUNCE_WINDOW
       /\ c.since - a.since >= DEBOUNCE_WINDOW
       /\ Covering("microphone:active-use", a.since)
            = Covering("microphone:active-use", b.since)
       /\ Covering("microphone:active-use", c.since)
            # Covering("microphone:active-use", a.since)

\* C4 (denial silence): a handler the original gave a failure dispatches no
\* event, makes no observation, leaves recentLogs, activePermissions and
\* activeWatchers as they were and hands the page the error it was given.
C4_DenialSilence ==
  [][ FailureGiven(last'.given) =>
        /\ last'.got = last'.given
        /\ last'.emitted = <<>>
        /\ UNCHANGED <<events, observed, recentLogs, activePermissions,
                       activeWatchers>>
    ]_vars

\* A denial met with events dispatched, a ledger entry and a record.
C4_Witness ==
  /\ FailureGiven(last.given)
  /\ events # <<>>
  /\ recentLogs # EmptyMap
  /\ activePermissions # EmptyMap \/ activeWatchers # EmptyMap

\* The camera active-use events the last handler dispatched, and the earlier
\* ones whose window holds the present instant.
CameraEmitted == EmittedOf("camera:active-use")
CameraRecent ==
  {i \in Covering("camera:active-use", now) : i <= Len(events) - Len(last.emitted)}
BasicVideoGranted ==
  /\ last.op = "getUserMedia.then"
  /\ SuccessGiven(last.given)
  /\ last.req.constraints.video = "true"

\* C9 as stated (transparency on success): the page gets what the original
\* gave, and every successful {video:true} request dispatches one camera
\* active-use event with constraints 'basic'.
C9_Original ==
  /\ SuccessGiven(last.given) => last.got = Due
  /\ BasicVideoGranted =>
       /\ Cardinality(CameraEmitted) = 1
       /\ \A i \in CameraEmitted : last.emitted[i].metadata.constraints = "basic"

\* C9 as amended: the page gets what the original gave, and a successful
\* {video:true} request dispatches one camera active-use event with
\* constraints 'basic' unless a camera active-use event was dispatched less
\* than DEBOUNCE_WINDOW earlier, and then none.
C9_Transparency ==
  /\ SuccessGiven(last.given) => last.got = Due
  /\ BasicVideoGranted =>
       /\ Cardinality(CameraEmitted) = (IF CameraRecent = {} THEN 1 ELSE 0)
       /\ \A i \in CameraEmitted : last.emitted[i].metadata.constraints = "basic"

\* A {video:true} request resolved with its stream and its event dispatched.
C9_Witness ==
  /\ BasicVideoGranted
  /\ last.got = last.given
  /\ Cardinality(CameraEmitted) = 1

\* C10 as stated (fail-open): when the original gives a handler a result the
\* observation faults on, the page still gets what the original gave.
C10_FailOpen ==
  (last.given.kind \in {"resolve", "callback"} /\ last.given.tag \in Malformed)
    => last.got = Due

\* C5 as stated (watch counting): updateCount is the number of successful
\* position callbacks of the watch; callback 1 dispatches tracking-started,
\* callbacks 10, 20, 30, ... dispatch tracking-active with the running count
\* and no other callback dispatches anything; clearWatch dispatches
\* tracking-stopped with totalUpdates the number of callbacks.
C5_WatchCounting ==
  /\ \A id \in DOMAIN activeWatchers : activeWatchers[id].updateCount = delivered[id]
  /\ last.op = "watchPosition.success" =>
       LET n == delivered[last.req.id] IN
         /\ n = 1 => /\ Len(last.emitted) = 1
                      /\ last.emitted[1].action = "tracking-started"
         /\ (n > 1 /\ n % ACTIVE_EVERY # 0) => last.emitted = <<>>
         /\ \A i \in 1..Len(last.emitted) :
              n > 1 => /\ last.emitted[i].action = "tracking-active"
                       /\ last.emitted[i].metadata.updateCount = n
  /\ (last.op = "clearWatch" /\ last.req.had) =>
       \A i \in 1..Len(last.emitted) :
         /\ last.emitted[i].action = "tracking-stopped"
         /\ last.emitted[i].metadata.totalUpdates = delivered[last.req.id]

\* C6 as stated (idempotent lifecycle): the wrappers of one track dispatch at
\* most one stopped event however often and whenever stop is called, and a
\* clearWatch of an id without a record dispatches nothing.
C6_IdempotentLifecycle ==
  /\ \A t \in tracks : t.stopEvents <= 1
  /\ (last.op = "clearWatch" /\ ~last.req.had) => last.emitted = <<>>

\* C7 as stated (every lifecycle transition is preserved): the first callback
\* of a watch, the clearWatch of a watch with a record, the first stop of a
\* track and every granted kind of a media request each dispatch their event,
\* whatever was dispatched for another instance before.
C7_TransitionsPreserved ==
  /\ (last.op = "clearWatch" /\ last.req.had) => Len(last.emitted) = 1
  /\ (last.op = "watchPosition.success" /\ delivered[last.req.id] = 1)
       => Len(last.emitted) = 1
  /\ (last.op = "track.stop" /\ last.req.readyState = "live")
       => Len(last.emitted) = 1
  /\ (last.op = "getUserMedia.then" /\ SuccessGiven(last.given))
       => Len(last.emitted) = Cardinality(StreamKinds(last.req.constraints))

\* C8 as stated (cancellation): a position callback run after the clearWatch
\* of its watch creates no record, dispatches nothing and hands the position
\* to the page.
C8_LateCallbackNoOp ==
  last.op = "watchPosition.late" =>
    /\ last.req.id \notin DOMAIN activeWatchers
    /\ last.emitted = <<>>
    /\ last.got = Due

\* Promise-form media requests for one kind each, within the debounce window
\* and at its end.
MicChoices == {ConstraintsOf("absent", "true"), ConstraintsOf("true", "absent")}
NextMic ==
  \/ Clock(ShortInstants)
  \/ \E c \in MicChoices : GetUserMedia(c, Budget(MicCalls, MicCalls))
  \/ \E p \in gumPending, wellFormed \in BOOLEAN : GumResolve(p, wellFormed)
  \/ \E p \in gumPending, err \in Errors : GumReject(p, err)
SpecMic == Init /\ [][NextMic]_vars

\* The media wrappers and the tracks they wrap.
MediaChoices == {ConstraintsOf("absent", "true"), ConstraintsOf("object", "true")}
NextMedia ==
  \/ Clock(ShortInstants)
  \/ MediaNext(MediaChoices, {TRUE}, {TRUE}, Budget(2, MediaCalls),
               Budget(1, MediaCalls), Budget(2, MediaCalls))
SpecMedia == Init /\ [][NextMedia]_vars

\* The geolocation wrappers.
NextGeo ==
  \/ Clock(ShortInstants)
  \/ GeoNext({GoodPosition}, {TRUE}, Budget(1, GeoCalls), Budget(2, GeoCalls),
             Budget(2, GeoCalls), MaxUpdates)
SpecGeo == Init /\ [][NextGeo]_vars

\* One watch over many position callbacks.
NextWatch ==
  \/ Clock(Instants)
  \/ WatchPosition(TRUE, Budget(1, 2))
  \/ \E w \in watches : WatchSuccess(w, GoodPosition, WatchUpdates)
  \/ \E id \in ClearableIds : ClearWatch(id, FALSE, Budget(1, 2))
SpecWatch == Init /\ [][NextWatch]_vars

\* The notification wrapper and one reading and one writing clipboard
\* wrapper, which log under three keys, at instants a retention horizon and
\* more apart, and at the horizon itself.
LedgerInstants == {0, 10000, 11000, 22000}
LedgerOps == {"read", "write"}
NextLedger ==
  \/ Clock(LedgerInstants)
  \/ \E op \in LedgerOps : ClipboardCall(op, "", Budget(PageCalls, PageCalls))
  \/ \E p \in clipPending, items \in ItemLists : ClipboardResolve(p, "", items)
  \/ \E p \in clipPending, err \in Errors : ClipboardReject(p, err)
  \/ \E title \in Titles, options \in NotificationOptions :
       Notification(title, options, Budget(PageCalls, PageCalls))
SpecLedger == Init /\ [][NextLedger]_vars

\* ----------------------------------------------------- claims: the ledger

\* The ledger entries older than the sweep age at the present instant.
Stale == {k \in DOMAIN recentLogs : now - recentLogs[k] > CLEAN_AGE}

\* logPermissionUsage returned at the present instant: since its last call the
\* clock has not moved, and only logPermissionUsage writes the ledger.
JustObserved == observed # <<>> /\ observed[Len(observed)].t = now
JustAdmitted == \E n \in 1..Len(observed) : observed[n].admitted /\ observed[n].t = now

\* Every event is more than the sweep age after the event before it.
SpacedEmissions ==
  \A i \in 1..Len(events) - 1 : TimeOf(events[i + 1]) - TimeOf(events[i]) > CLEAN_AGE

\* C11 (ledger bounding): right after an admitted emission the ledger holds no
\* entry older than CLEAN_AGE, and while every emission is more than CLEAN_AGE
\* after the one before it the ledger holds one entry, however many distinct
\* keys were emitted.
C11_LedgerBounded ==
  /\ JustAdmitted => Stale = {}
  /\ (events # <<>> /\ SpacedEmissions) => Cardinality(DOMAIN recentLogs) = 1

\* Three distinct keys emitted, each more than CLEAN_AGE after the one before.
C11_Witness ==
  /\ Len(events) = 3
  /\ SpacedEmissions
  /\ Cardinality({EventKeyOf(events[i]) : i \in 1..Len(events)}) = 3
  /\ JustAdmitted
  /\ Cardinality(DOMAIN recentLogs) = 1

\* C12 as stated (the sweep runs after every admission decision): when
\* logPermissionUsage has returned, having admitted or suppressed, the ledger
\* holds no entry older than CLEAN_AGE.
C12_SweepAlways == JustObserved => Stale = {}

\* ------------------------------------------------ claims: lifecycle records

\* The last handler is a successful media acquisition, in either form.
Acquired ==
  /\ last.op \in {"getUserMedia.then", "legacyGetUserMedia.success"}
  /\ SuccessGiven(last.given)

\* C13 as stated (ActiveCapabilityRecord lifecycle, both acquisition forms): a
\* successful acquisition, promise form or legacy form, leaves for every kind
\* it requested the record of its stream in activePermissions and has every
\* track of its stream wrapped.
C13_RecordLifecycle ==
  Acquired =>
    \A k \in StreamKinds(last.req.constraints) :
      /\ PermTypeOf(k) \in DOMAIN activePermissions
      /\ activePermissions[PermTypeOf(k)].stream = last.req.id
      /\ \E t \in tracks : t.stream = last.req.id /\ t.kind = k

\* C14 as stated (WatchRecord existence): activeWatchers holds a record for
\* exactly the watch ids registered through watchPosition and not cleared.
C14_WatchRecordExists ==
  DOMAIN activeWatchers = {w.id : w \in watches}

\* C18 as stated (activePermissions reflects live use): while a wrapped track
\* of a kind is live, activePermissions holds a record for that kind.
C18_LiveUseRecorded ==
  \A t \in tracks :
    t.readyState = "live" => PermTypeOf(t.kind) \in DOMAIN activePermissions

\* ------------------------------------------- claims: ordering and pruning

\* C15 (ordering): the events of one key carry non-decreasing timestamps in
\* the order of their emission, whatever the order in which the pending
\* requests, the watches and the clears complete.
C15_Ordering ==
  \A i, j \in 1..Len(events) :
    (i < j /\ EventKeyOf(events[i]) = EventKeyOf(events[j]))
      => TimeOf(events[i]) <= TimeOf(events[j])

\* Two overlapping promise-form requests completed in the reverse of the order
\* they were made in, each with its event of the same key.
C15_Witness ==
  \E a, b \in tracks :
    /\ a.kind = b.kind
    /\ a.stream < b.stream
    /\ b.since < a.since
    /\ \E i, j \in EventsOf(eventKey(PermTypeOf(a.kind), "active-use")) :
         /\ i < j
         /\ events[i].metadata.requestId = b.requestId
         /\ TimeOf(events[i]) = b.since
         /\ events[j].metadata.requestId = a.requestId
         /\ TimeOf(events[j]) = a.since

\* C16 (clearWatch of an id without a record): the call dispatches nothing,
\* makes no observation, leaves activeWatchers and the ledger as they were and
\* invokes the original clearWatch once, which clears that id.
C16_UnknownClear ==
  [][ (last'.op = "clearWatch" /\ ~last'.req.had) =>
        /\ last'.emitted = <<>>
        /\ UNCHANGED <<events, observed, recentLogs, activeWatchers>>
        /\ calls'["clearWatch"] = calls["clearWatch"] + 1
        /\ origCalls'["clearWatch"] = origCalls["clearWatch"] + 1
        /\ \A w \in watches' : w.id # last'.req.id
    ]_vars

\* A watch that reported, was cleared and is cleared again, its id holding no
\* record, while another watch has one and events were dispatched.
C16_Witness ==
  /\ last.op = "clearWatch"
  /\ ~last.req.had
  /\ last.req.id \in DOMAIN delivered
  /\ delivered[last.req.id] > 0
  /\ origCalls["clearWatch"] = 2
  /\ activeWatchers # EmptyMap
  /\ events # <<>>

\* The admit / suppress decisions of lines 30-38 without the sweep of lines
\* 41-45, over the observations obs, from ledger logs.
RECURSIVE Unswept(_, _)
Unswept(logs, obs) ==
  IF obs = <<>> THEN <<>>
  ELSE LET o == Head(obs) IN
         IF IsDuplicate(logs, o.key, o.t)
         THEN <<FALSE>> \o Unswept(logs, Tail(obs))
         ELSE <<TRUE>> \o Unswept(MapSet(logs, o.key, o.t), Tail(obs))

\* The observations the script admitted, in order.
AdmittedObservations == SelectSeq(observed, LAMBDA o : o.admitted)

\* C17 (pruning never changes a decision): the script decides every
\* observation as the engine without the sweep does, and the events it
\* dispatched are those of the admitted observations, in order.
C17_PruningNeutral ==
  LET unswept == Unswept(EmptyMap, observed) IN
    /\ Len(unswept) = Len(observed)
    /\ \A n \in 1..Len(observed) : unswept[n] = observed[n].admitted
    /\ Len(events) = Len(AdmittedObservations)
    /\ \A i \in 1..Len(events) :
         /\ EventKeyOf(events[i]) = AdmittedObservations[i].key
         /\ TimeOf(events[i]) = AdmittedObservations[i].t

\* A key admitted, pruned by the admission of another key more than CLEAN_AGE
\* later, and observed again.
C17_Witness ==
  \E n, j, m \in 1..Len(observed) :
    /\ n < j /\ j < m
    /\ observed[n].admitted
    /\ observed[j].admitted
    /\ observed[j].key # observed[n].key
    /\ observed[j].t - observed[n].t > CLEAN_AGE
    /\ observed[m].key = observed[n].key
    /\ observed[m].admitted

====
